---- MODULE Spec2Model ----
(***************************************************************************)
(* Model of openchain/crypto/validator/validator_db.go: the validator's    *)
(* enrollment-certificate store.  A process-wide handle (db, isOpen) is    *)
(* created by initDB, closed by CloseDB; GetEnrollmentCert is a            *)
(* fetch-through cache over the table Certificates(id PRIMARY KEY, cert).  *)
(*                                                                         *)
(* Every caller (goroutine) runs one call at a time.  A call that touches  *)
(* shared state more than once is split at those points, so that calls of  *)
(* different callers interleave exactly where the Go code lets them.       *)
(*                                                                         *)
(* The storage engine (database/sql over sqlite3) is modelled by what the  *)
(* code relies on: a statement on a closed sql.DB fails, a statement on a  *)
(* missing table fails, the primary key rejects a second row with the same *)
(* id, a transaction's insert is invisible until it commits, and a second  *)
(* writer waits for the first one's transaction to end.                    *)
(***************************************************************************)
EXTENDS Naturals, Sequences, FiniteSets, TLC

\* ------------------------------------------------------------------ bounds

\* How many sql.DB objects openDB may create in one behaviour.
MaxHandles == 2

\* The callers (goroutines) of the package.
Procs == {"p1", "p2"}

\* Raw identities (byte strings) passed to GetEnrollmentCert: 0x01 0x02,
\* whose key is "AQI=".
Ids == {<<1, 2>>}

\* Certificates the enrollment CA can hand out (non-empty byte strings).
Certs == {"c1", "c2"}

\* ------------------------------------------------------------------ values

\* Go's nil []byte; also what a NULL cert column scans to (line 116-118).
Nil == "nil"

\* Go's nil error.
NoErr == "ok"

\* sql.ErrNoRows never leaves selectEnrollmentCert; the other errors do.
ErrDBClosed == "sql: database is closed"
ErrNoTable == "no such table: Certificates"
ErrCantOpen == "unable to open database file"
ErrConstraint == "UNIQUE constraint failed: Certificates.id"
ErrTxLost == "disk I/O error"
ErrFetch == "fetch failed"
ErrAlreadyInit == "DB already initialized."
ErrAlreadyExists == "db dir already exists"

\* No process / no handle (the nil *DB).
None == "none"
NilHandle == 0

\* ------------------------------------------------------------------ base64

B64Alphabet ==
  << "A","B","C","D","E","F","G","H","I","J","K","L","M","N","O","P",
     "Q","R","S","T","U","V","W","X","Y","Z","a","b","c","d","e","f",
     "g","h","i","j","k","l","m","n","o","p","q","r","s","t","u","v",
     "w","x","y","z","0","1","2","3","4","5","6","7","8","9","+","/" >>

B64Char(n) == B64Alphabet[n + 1]

\* utils.EncodeBase64: standard base64 with padding of a byte string.
RECURSIVE EncodeBase64(_)
EncodeBase64(b) ==
  IF Len(b) = 0 THEN ""
  ELSE IF Len(b) = 1 THEN
    B64Char(b[1] \div 4) \o B64Char((b[1] % 4) * 16) \o "=="
  ELSE IF Len(b) = 2 THEN
    B64Char(b[1] \div 4) \o B64Char((b[1] % 4) * 16 + (b[2] \div 16))
      \o B64Char((b[2] % 16) * 4) \o "="
  ELSE
    B64Char(b[1] \div 4) \o B64Char((b[1] % 4) * 16 + (b[2] \div 16))
      \o B64Char((b[2] % 16) * 4 + (b[3] \div 64)) \o B64Char(b[3] % 64)
      \o EncodeBase64(SubSeq(b, 4, Len(b)))

\* ------------------------------------------------------------------ state

VARIABLES
  \* the file system under getDBPath()
  dirExists,      \* the directory getDBPath() exists
  files,          \* names of the files in it
  tableExists,    \* client.db holds the table Certificates
  Certificates,   \* the committed rows of the table: records [id, cert]
  writer,         \* the caller whose transaction holds the write lock
  \* package-level variables (lines 135-136)
  db,             \* var db *DB: index into handles, NilHandle for nil
  isOpen,         \* var isOpen bool
  handles,        \* every DB object created so far: handles[h] <=> its sqlDB is not closed
  \* per caller
  pc,             \* where the caller's current call stands
  hnd,            \* the *DB the caller got from getDBHandle()
  id,             \* GetEnrollmentCert's id
  certFetcher,    \* GetEnrollmentCert's certFetcher: what it returns when invoked
  cert,           \* GetEnrollmentCert's local cert
  tx,             \* GetEnrollmentCert's local tx
  newDB,          \* openDB's result inside initDB
  \* the step just taken
  ret,            \* the call that returned in this step and what it returned
  \* history of the current call of each caller, read by the properties only
  fetched,        \* how often the call has invoked certFetcher
  lookup,         \* the cert columns the call's first select found for its key
  rival,          \* the certificate another call committed for the same key
                  \* between this call's miss and its insert, on the store
                  \* as it is now (deleteDB forgets it)
  attempted,      \* the call has executed its INSERT
  committed,      \* the call has committed its insert
  coSucc,         \* an initDB call overlapping this one has returned success
  \* history of the store
  solo,           \* the caller during whose current call no other caller has acted
  observed,       \* [id, cert] returned non-nil by some call since the last deleteDB
  origin          \* [id, cert, via]: the records committed since the last
                  \* deleteDB, with the handle each was committed through

storeVars == <<dirExists, files, tableExists, Certificates, writer>>
globalVars == <<db, isOpen, handles>>
callVars == <<pc, hnd, id, certFetcher, cert, tx, newDB>>
histVars == <<fetched, lookup, rival, attempted, committed, coSucc>>
vars ==
  <<storeVars, globalVars, callVars, ret, histVars, solo, observed, origin>>

InCall(p) == pc[p] # "idle"

\* What certFetcher can return when invoked: a certificate, nothing, or an error.
FetchOutcomes ==
  {[cert |-> c, err |-> NoErr] : c \in Certs \cup {Nil}}
    \cup {[cert |-> Nil, err |-> ErrFetch]}

NoFetcher == [cert |-> Nil, err |-> NoErr]
NoRival == "none"

\* ret when the step just taken returned from no call.
NoReturn ==
  [proc |-> None, op |-> None, id |-> <<>>, certFetcher |-> NoFetcher,
   cert |-> Nil, err |-> NoErr, open |-> FALSE, lookup |-> {}, fetched |-> 0,
   rival |-> NoRival, attempted |-> FALSE, committed |-> FALSE,
   solo |-> FALSE, coSucc |-> FALSE]

\* ------------------------------------------------------------------ paths

getDBName == "client.db"

\* conf: the name createDB tests before creating (not the one it opens).
getDBFilename == "db.db"

\* utils.DirMissingOrEmpty(getDBPath())
DirMissingOrEmpty == ~dirExists \/ files = {}

\* utils.FileMissing(getDBPath(), name)
FileMissing(name) == ~dirExists \/ name \notin files

\* ------------------------------------------------------------------ engine

\* The cert column of a row: NULL or a blob.
Null == "NULL"

\* The driver binds a nil []byte as NULL and scans NULL into a nil []byte.
BindBlob(c) == IF c = Nil THEN Null ELSE c
ScanBlob(v) == IF v = Null THEN Nil ELSE v

\* Rows with the key comparison broken: no row ever matches.
Rows_noMatch(sid) == {r \in Certificates : FALSE}

\* The committed rows with primary key sid.
Rows(sid) == {r \in Certificates : r.id = sid}

\* Using a connection of an open sql.DB creates client.db when the directory
\* exists and the file does not.
Connect(h) ==
  IF handles[h] /\ dirExists THEN files \cup {getDBName} ELSE files

\* db.sqlDB.Begin(): its error.
Begin(h) ==
  IF ~handles[h] THEN ErrDBClosed
  ELSE IF ~dirExists THEN ErrCantOpen
  ELSE NoErr

\* db.sqlDB.QueryRow(...) on sql.DB h: the error that keeps it from running.
QueryErr(h) ==
  IF Begin(h) # NoErr THEN Begin(h)
  ELSE IF ~tableExists THEN ErrNoTable
  ELSE NoErr

\* ------------------------------------------------------------------ DB

\* selectEnrollmentCert taking every result for sql.ErrNoRows.
selectEnrollmentCert_noRows(h, sid) ==
  IF QueryErr(h) # NoErr THEN [cert |-> Nil, err |-> QueryErr(h)]
  ELSE [cert |-> Nil, err |-> NoErr]

\* selectEnrollmentCert taking every error of Scan for sql.ErrNoRows.
selectEnrollmentCert_errAsNoRows(h, sid) ==
  IF QueryErr(h) # NoErr THEN [cert |-> Nil, err |-> NoErr]
  ELSE IF Rows(sid) = {} THEN [cert |-> Nil, err |-> NoErr]
  ELSE [cert |-> ScanBlob((CHOOSE r \in Rows(sid) : TRUE).cert), err |-> NoErr]

\* func (db *DB) selectEnrollmentCert(id string) ([]byte, error)
selectEnrollmentCert(h, sid) ==
  IF QueryErr(h) # NoErr THEN [cert |-> Nil, err |-> QueryErr(h)]
  ELSE IF Rows(sid) = {} THEN [cert |-> Nil, err |-> NoErr]
  ELSE [cert |-> ScanBlob((CHOOSE r \in Rows(sid) : TRUE).cert), err |-> NoErr]

\* The INSERT on a table declared without PRIMARY KEY (id).
ExecInsert_noPrimaryKey(p, sid) ==
  IF tx[p] = "lost" \/ ~dirExists \/ ~tableExists THEN ErrNoTable ELSE NoErr

\* The INSERT on a table whose uniqueness is not by id: any row is in the way.
ExecInsert_anyRow(p, sid) ==
  IF tx[p] = "lost" \/ ~dirExists \/ ~tableExists THEN ErrNoTable
  ELSE IF Certificates # {} THEN ErrConstraint
  ELSE NoErr

\* tx.Exec("INSERT INTO Certificates (id, cert) VALUES (?, ?)", sid, cert):
\* the error of the insert in caller p's transaction.
ExecInsert(p, sid) ==
  IF tx[p] = "lost" \/ ~dirExists \/ ~tableExists THEN ErrNoTable
  ELSE IF Rows(sid) # {} THEN ErrConstraint
  ELSE NoErr

\* A commit that keeps nothing (the transaction is rolled back instead).
Commit_rolledBack(p, sid) == Certificates

\* tx.Commit(): the rows of the table afterwards.
Commit(p, sid) ==
  Certificates \cup {[id |-> sid, cert |-> BindBlob(cert[p])]}

\* History: a call returns certificate c for identity i.
Observe(i, c) ==
  IF c = Nil THEN observed ELSE observed \cup {[id |-> i, cert |-> c]}

\* History: caller p takes a step of a call; starts says it is the first.
Solo(p, starts) == IF starts \/ solo = p THEN p ELSE None

\* The call of caller p returns (c, e): the record of the return.
Return(p, o, i, f, c, e) ==
  [proc |-> p, op |-> o, id |-> i, certFetcher |-> f, cert |-> c, err |-> e,
   open |-> IF hnd[p] = NilHandle THEN FALSE ELSE handles[hnd[p]],
   lookup |-> lookup[p], fetched |-> fetched[p], rival |-> rival[p],
   attempted |-> attempted[p], committed |-> committed[p],
   solo |-> (solo = p), coSucc |-> coSucc[p]]

\* History of caller p's call, forgotten when the call returns.
Forget(p) ==
  /\ fetched' = [fetched EXCEPT ![p] = 0]
  /\ lookup' = [lookup EXCEPT ![p] = {}]
  /\ rival' = [rival EXCEPT ![p] = NoRival]
  /\ attempted' = [attempted EXCEPT ![p] = FALSE]
  /\ committed' = [committed EXCEPT ![p] = FALSE]
  /\ UNCHANGED coSucc

\* The locals of GetEnrollmentCert, gone when the call returns.
Leave(p) ==
  /\ pc' = [pc EXCEPT ![p] = "idle"]
  /\ id' = [id EXCEPT ![p] = <<>>]
  /\ certFetcher' = [certFetcher EXCEPT ![p] = NoFetcher]
  /\ cert' = [cert EXCEPT ![p] = Nil]


\* A step of caller p's call that does not return.
Continue(p, to) ==
  /\ pc' = [pc EXCEPT ![p] = to]
  /\ ret' = NoReturn
  /\ solo' = Solo(p, FALSE)
  /\ UNCHANGED observed

\* The step in which caller p's GetEnrollmentCert returns, r its record.
ReturnGet(p, r) ==
  /\ Leave(p)
  /\ Forget(p)
  /\ ret' = r
  /\ observed' = Observe(r.id, r.cert)
  /\ solo' = None

GetRecord(p, c, e) ==
  Return(p, "GetEnrollmentCert", id[p], certFetcher[p], c, e)

\* func (db *DB) GetEnrollmentCert(id, certFetcher), lines 42-53 and 104:
\* the call, its first select, and the return when the select fails or hits.
GetEnrollmentCert_select(p, i, f) ==
  /\ pc[p] = "idle"
  /\ hnd[p] # NilHandle
  /\ LET sid == EncodeBase64(i)
         r == selectEnrollmentCert(hnd[p], sid)
         found == {row.cert : row \in Rows(sid)}
     IN IF r.err # NoErr \/ r.cert # Nil
          THEN ReturnGet(p, [Return(p, "GetEnrollmentCert", i, f, r.cert, r.err)
                               EXCEPT !.lookup = found, !.solo = TRUE])
          ELSE /\ pc' = [pc EXCEPT ![p] = "fetch"]
               /\ id' = [id EXCEPT ![p] = i]
               /\ certFetcher' = [certFetcher EXCEPT ![p] = f]
               /\ lookup' = [lookup EXCEPT ![p] = found]
               /\ ret' = NoReturn
               /\ solo' = Solo(p, TRUE)
               /\ UNCHANGED <<cert, fetched, rival, attempted, committed,
                              coSucc, observed>>
  /\ files' = Connect(hnd[p])
  /\ UNCHANGED <<dirExists, tableExists, Certificates, origin, writer,
                 globalVars, hnd, tx, newDB>>

\* The fetch with its error dropped: the call goes on with no certificate.
GetEnrollmentCert_fetch_errDropped(p) ==
  /\ pc[p] = "fetch"
  /\ Continue(p, "begin")
  /\ cert' = [cert EXCEPT ![p] = certFetcher[p].cert]
  /\ fetched' = [fetched EXCEPT ![p] = @ + 1]
  /\ UNCHANGED <<id, certFetcher, lookup, rival, attempted, committed, coSucc>>
  /\ UNCHANGED <<storeVars, origin, globalVars, hnd, tx, newDB>>

\* lines 56-61: cert, err = certFetcher(id)
GetEnrollmentCert_fetch(p) ==
  /\ pc[p] = "fetch"
  /\ IF certFetcher[p].err # NoErr
       THEN ReturnGet(p, [GetRecord(p, Nil, certFetcher[p].err)
                            EXCEPT !.fetched = fetched[p] + 1])
       ELSE /\ Continue(p, "begin")
            /\ cert' = [cert EXCEPT ![p] = certFetcher[p].cert]
            /\ fetched' = [fetched EXCEPT ![p] = @ + 1]
            /\ UNCHANGED <<id, certFetcher, lookup, rival, attempted,
                           committed, coSucc>>
  /\ UNCHANGED <<storeVars, origin, globalVars, hnd, tx, newDB>>

\* lines 65-70: tx, err := db.sqlDB.Begin()
GetEnrollmentCert_begin(p) ==
  /\ pc[p] = "begin"
  /\ IF Begin(hnd[p]) # NoErr
       THEN /\ ReturnGet(p, GetRecord(p, Nil, Begin(hnd[p])))
            /\ UNCHANGED tx
       ELSE /\ Continue(p, "insert")
            /\ tx' = [tx EXCEPT ![p] = "active"]
            /\ UNCHANGED <<id, certFetcher, cert, histVars>>
  /\ files' = Connect(hnd[p])
  /\ UNCHANGED <<dirExists, tableExists, Certificates, origin, writer,
                 globalVars, hnd, newDB>>

\* The INSERT without the tx.Rollback() of line 77 when it fails.
GetEnrollmentCert_insert_noRollback(p) ==
  /\ pc[p] = "insert"
  /\ writer = None
  /\ LET e == ExecInsert(p, EncodeBase64(id[p]))
     IN IF e # NoErr
          THEN /\ ReturnGet(p, [GetRecord(p, Nil, e) EXCEPT !.attempted = TRUE])
               /\ UNCHANGED <<tx, writer>>
          ELSE /\ Continue(p, "commit")
               /\ tx' = [tx EXCEPT ![p] = "inserted"]
               /\ writer' = p
               /\ attempted' = [attempted EXCEPT ![p] = TRUE]
               /\ UNCHANGED <<id, certFetcher, cert, fetched, lookup, rival,
                              committed, coSucc>>
  /\ UNCHANGED <<dirExists, files, tableExists, Certificates, origin,
                 globalVars, hnd, newDB>>

\* lines 75-83: the INSERT, and the rollback when it fails.  The statement
\* waits while another transaction holds the write lock.
GetEnrollmentCert_insert(p) ==
  /\ pc[p] = "insert"
  /\ writer = None
  /\ LET e == ExecInsert(p, EncodeBase64(id[p]))
     IN IF e # NoErr
          THEN /\ ReturnGet(p, [GetRecord(p, Nil, e) EXCEPT !.attempted = TRUE])
               /\ tx' = [tx EXCEPT ![p] = "none"]
               /\ UNCHANGED writer
          ELSE /\ Continue(p, "commit")
               /\ tx' = [tx EXCEPT ![p] = "inserted"]
               /\ writer' = p
               /\ attempted' = [attempted EXCEPT ![p] = TRUE]
               /\ UNCHANGED <<id, certFetcher, cert, fetched, lookup, rival,
                              committed, coSucc>>
  /\ UNCHANGED <<dirExists, files, tableExists, Certificates, origin,
                 globalVars, hnd, newDB>>

\* History: the calls that have missed the key of caller p's call and not yet
\* inserted (and whose transaction, if begun, is on the store as it is now)
\* learn that p has committed a row for it.
Overtake(p) ==
  [q \in Procs |->
     IF /\ q # p
        /\ pc[q] \in {"fetch", "begin", "insert"}
        /\ id[q] = id[p]
        /\ tx[q] # "lost"
       THEN cert[p] ELSE rival[q]]

\* lines 85-92: tx.Commit(), and the rollback when it fails.
GetEnrollmentCert_commit(p) ==
  /\ pc[p] = "commit"
  /\ IF tx[p] = "lost"
       THEN /\ ReturnGet(p, GetRecord(p, Nil, ErrTxLost))
            /\ UNCHANGED <<Certificates, origin, writer>>
       ELSE /\ Continue(p, "reselect")
            /\ Certificates' = Commit(p, EncodeBase64(id[p]))
            /\ writer' = None
            /\ committed' = [committed EXCEPT ![p] = TRUE]
            /\ rival' = Overtake(p)
            /\ origin' = origin \cup {[id |-> id[p], cert |-> cert[p],
                                        via |-> hnd[p]]}
            /\ UNCHANGED <<id, certFetcher, cert, fetched, lookup, attempted,
                           coSucc>>
  /\ tx' = [tx EXCEPT ![p] = "none"]
  /\ UNCHANGED <<dirExists, files, tableExists, globalVars, hnd, newDB>>

\* lines 96-104: the select after the commit, and the return.
GetEnrollmentCert_reselect(p) ==
  /\ pc[p] = "reselect"
  /\ LET r == selectEnrollmentCert(hnd[p], EncodeBase64(id[p]))
     IN ReturnGet(p, GetRecord(p, r.cert, r.err))
  /\ files' = Connect(hnd[p])
  /\ UNCHANGED <<dirExists, tableExists, Certificates, origin, writer,
                 globalVars, hnd, tx, newDB>>

\* A call that is one step: its record.
Atomic(p, o) == [NoReturn EXCEPT !.proc = p, !.op = o]

\* CloseDB failing with the error of sql.DB when the handle is closed already.
CloseDB_errIfClosed(p) ==
  /\ pc[p] = "idle"
  /\ hnd[p] # NilHandle
  /\ handles' = [handles EXCEPT ![hnd[p]] = FALSE]
  /\ isOpen' = FALSE
  /\ ret' = [Atomic(p, "CloseDB") EXCEPT !.open = handles[hnd[p]],
                !.err = IF handles[hnd[p]] THEN NoErr ELSE ErrDBClosed]
  /\ solo' = None
  /\ UNCHANGED <<storeVars, origin, db, callVars, histVars, observed>>

\* func (db *DB) CloseDB(), lines 107-110.  ret.open: the handle was open.
CloseDB(p) ==
  /\ pc[p] = "idle"
  /\ hnd[p] # NilHandle
  /\ handles' = [handles EXCEPT ![hnd[p]] = FALSE]
  /\ isOpen' = FALSE
  /\ ret' = [Atomic(p, "CloseDB") EXCEPT !.open = handles[hnd[p]]]
  /\ solo' = None
  /\ UNCHANGED <<storeVars, origin, db, callVars, histVars, observed>>

\* func getDBHandle() *DB, lines 201-203
getDBHandle(p) ==
  /\ pc[p] = "idle"
  /\ hnd' = [hnd EXCEPT ![p] = db]
  /\ ret' = Atomic(p, "getDBHandle")
  /\ solo' = None
  /\ UNCHANGED <<storeVars, origin, globalVars, pc, id, certFetcher, cert,
                 tx, newDB, histVars, observed>>

\* func deleteDB() error, lines 194-198: os.RemoveAll(getDBPath()).  A
\* transaction that was open on the removed file is lost with it.
deleteDB(p) ==
  /\ pc[p] = "idle"
  /\ dirExists' = FALSE
  /\ files' = {}
  /\ tableExists' = FALSE
  /\ Certificates' = {}
  /\ writer' = None
  /\ tx' = [q \in Procs |-> IF tx[q] = "none" THEN "none" ELSE "lost"]
  /\ observed' = {}
  /\ origin' = {}
  /\ rival' = [q \in Procs |-> NoRival]
  /\ ret' = Atomic(p, "deleteDB")
  /\ solo' = None
  /\ UNCHANGED <<globalVars, pc, hnd, id, certFetcher, cert, newDB,
                 fetched, lookup, attempted, committed, coSucc>>

\* ------------------------------------------------------------------ bootstrap

\* createDB without the CREATE TABLE of lines 184-188.
createDB_noTable ==
  IF ~FileMissing(getDBFilename)
    THEN [err |-> ErrAlreadyExists, dirExists |-> dirExists, files |-> files,
          tableExists |-> tableExists]
    ELSE [err |-> NoErr, dirExists |-> TRUE,
          files |-> (IF dirExists THEN files ELSE {}) \cup {getDBName},
          tableExists |-> tableExists]

\* func createDB() error, lines 157-191: the file system it leaves and its error.
createDB ==
  IF ~FileMissing(getDBFilename)
    THEN [err |-> ErrAlreadyExists, dirExists |-> dirExists, files |-> files,
          tableExists |-> tableExists]
    ELSE \* MkdirAll; sql.Open and Ping create client.db; CREATE TABLE IF NOT EXISTS
         [err |-> NoErr, dirExists |-> TRUE,
          files |-> (IF dirExists THEN files ELSE {}) \cup {getDBName},
          tableExists |-> TRUE]

\* func createDBIfDBPathEmpty() error, lines 209-236
createDBIfDBPathEmpty ==
  LET missing == IF ~DirMissingOrEmpty THEN FileMissing(getDBName) ELSE TRUE
  IN IF missing
       THEN [createDB EXCEPT !.err = NoErr]
       ELSE [err |-> NoErr, dirExists |-> dirExists, files |-> files,
             tableExists |-> tableExists]

\* ------------------------------------------------------------------ initDB

InitDBPcs == {"createDBIfDBPathEmpty", "openDB", "sqlOpen", "setOpen", "assign"}

\* The step in which caller p's initDB returns e.
ReturnInitDB(p, e) ==
  /\ pc' = [pc EXCEPT ![p] = "idle"]
  /\ newDB' = [newDB EXCEPT ![p] = NilHandle]
  /\ ret' = Return(p, "initDB", <<>>, NoFetcher, Nil, e)
  /\ coSucc' = [q \in Procs |->
       IF q = p THEN FALSE
       ELSE IF e = NoErr /\ pc[q] \in InitDBPcs THEN TRUE
       ELSE coSucc[q]]
  /\ solo' = None
  /\ UNCHANGED <<hnd, id, certFetcher, cert, tx, fetched, lookup, rival,
                 attempted, committed, observed>>

\* A step of caller p's initDB that does not return.
ContinueInitDB(p, to) ==
  /\ Continue(p, to)
  /\ UNCHANGED <<hnd, id, certFetcher, cert, tx, histVars>>

\* initDB without the test of isOpen.
initDB_noTest(p) ==
  /\ pc[p] = "idle"
  /\ pc' = [pc EXCEPT ![p] = "createDBIfDBPathEmpty"]
  /\ ret' = NoReturn
  /\ solo' = Solo(p, TRUE)
  /\ UNCHANGED <<hnd, id, certFetcher, cert, tx, newDB, histVars, observed>>
  /\ UNCHANGED <<storeVars, origin, globalVars>>

\* func initDB() error, lines 138-142: the test of isOpen
initDB_isOpen(p) ==
  /\ pc[p] = "idle"
  /\ IF isOpen
       THEN ReturnInitDB(p, ErrAlreadyInit)
       ELSE /\ pc' = [pc EXCEPT ![p] = "createDBIfDBPathEmpty"]
            /\ ret' = NoReturn
            /\ solo' = Solo(p, TRUE)
            /\ UNCHANGED <<hnd, id, certFetcher, cert, tx, newDB, histVars,
                           observed>>
  /\ UNCHANGED <<storeVars, origin, globalVars>>

\* A bootstrap that replaces the database it finds by an empty one.
initDB_createDBIfDBPathEmpty_fresh(p) ==
  /\ pc[p] = "createDBIfDBPathEmpty"
  /\ LET r == createDBIfDBPathEmpty
     IN /\ dirExists' = r.dirExists
        /\ files' = r.files
        /\ tableExists' = r.tableExists
        /\ ContinueInitDB(p, "openDB") /\ UNCHANGED newDB
  /\ Certificates' = {}
  /\ UNCHANGED <<origin, writer, globalVars>>

\* lines 144-147: err := createDBIfDBPathEmpty()
initDB_createDBIfDBPathEmpty(p) ==
  /\ pc[p] = "createDBIfDBPathEmpty"
  /\ LET r == createDBIfDBPathEmpty
     IN /\ dirExists' = r.dirExists
        /\ files' = r.files
        /\ tableExists' = r.tableExists
        /\ IF r.err # NoErr
             THEN ReturnInitDB(p, r.err)
             ELSE ContinueInitDB(p, "openDB") /\ UNCHANGED newDB
  /\ UNCHANGED <<Certificates, origin, writer, globalVars>>

\* func openDB() (*DB, error), lines 239-241: the test of isOpen
openDB_isOpen(p) ==
  /\ pc[p] = "openDB"
  /\ IF isOpen
       THEN /\ ContinueInitDB(p, "assign")
            /\ newDB' = [newDB EXCEPT ![p] = db]
       ELSE /\ ContinueInitDB(p, "sqlOpen")
            /\ UNCHANGED newDB
  /\ UNCHANGED <<storeVars, origin, globalVars>>

\* lines 242-249 and 252: sql.Open and the new &DB{sqlDB}
openDB_sqlOpen(p) ==
  /\ pc[p] = "sqlOpen"
  /\ Len(handles) < MaxHandles
  /\ handles' = Append(handles, TRUE)
  /\ newDB' = [newDB EXCEPT ![p] = Len(handles) + 1]
  /\ ContinueInitDB(p, "setOpen")
  /\ UNCHANGED <<storeVars, origin, db, isOpen>>

\* line 250: isOpen = true
openDB_setOpen(p) ==
  /\ pc[p] = "setOpen"
  /\ isOpen' = TRUE
  /\ ContinueInitDB(p, "assign")
  /\ UNCHANGED <<storeVars, origin, db, handles, newDB>>

\* lines 149-153: db, err = openDB(); return nil
initDB_assign(p) ==
  /\ pc[p] = "assign"
  /\ db' = newDB[p]
  /\ ReturnInitDB(p, NoErr)
  /\ UNCHANGED <<storeVars, origin, isOpen, handles>>

\* ------------------------------------------------------------------ behaviours

\* The package before any call: db is nil, isOpen is false; the directory is
\* missing, empty, or holds a file named getDBFilename() and no database.
Init ==
  /\ dirExists \in BOOLEAN
  /\ files \in (IF dirExists THEN {{}, {getDBFilename}} ELSE {{}})
  /\ tableExists = FALSE
  /\ Certificates = {}
  /\ writer = None
  /\ db = NilHandle
  /\ isOpen = FALSE
  /\ handles = <<>>
  /\ pc = [p \in Procs |-> "idle"]
  /\ hnd = [p \in Procs |-> NilHandle]
  /\ id = [p \in Procs |-> <<>>]
  /\ certFetcher = [p \in Procs |-> NoFetcher]
  /\ cert = [p \in Procs |-> Nil]
  /\ tx = [p \in Procs |-> "none"]
  /\ newDB = [p \in Procs |-> NilHandle]
  /\ ret = NoReturn
  /\ fetched = [p \in Procs |-> 0]
  /\ lookup = [p \in Procs |-> {}]
  /\ rival = [p \in Procs |-> NoRival]
  /\ attempted = [p \in Procs |-> FALSE]
  /\ committed = [p \in Procs |-> FALSE]
  /\ coSucc = [p \in Procs |-> FALSE]
  /\ solo = None
  /\ observed = {}
  /\ origin = {}

Next ==
  \E p \in Procs :
    \/ \E i \in Ids, f \in FetchOutcomes : GetEnrollmentCert_select(p, i, f)
    \/ GetEnrollmentCert_fetch(p)
    \/ GetEnrollmentCert_begin(p)
    \/ GetEnrollmentCert_insert(p)
    \/ GetEnrollmentCert_commit(p)
    \/ GetEnrollmentCert_reselect(p)
    \/ CloseDB(p)
    \/ getDBHandle(p)
    \/ deleteDB(p)
    \/ initDB_isOpen(p)
    \/ initDB_createDBIfDBPathEmpty(p)
    \/ openDB_isOpen(p)
    \/ openDB_sqlOpen(p)
    \/ openDB_setOpen(p)
    \/ initDB_assign(p)

Spec == Init /\ [][Next]_vars

\* ---------------------------------------------- behaviours with two identities

\* Two identities, of different keys.
IdsAB == {<<1, 2>>, <<3>>}

\* The package after initDB() on a missing directory and getDBHandle() by
\* every caller: the store is created and open, every caller holds its handle.
InitAB ==
  /\ dirExists = TRUE
  /\ files = {getDBName}
  /\ tableExists = TRUE
  /\ Certificates = {}
  /\ writer = None
  /\ db = 1
  /\ isOpen = TRUE
  /\ handles = <<TRUE>>
  /\ pc = [p \in Procs |-> "idle"]
  /\ hnd = [p \in Procs |-> 1]
  /\ id = [p \in Procs |-> <<>>]
  /\ certFetcher = [p \in Procs |-> NoFetcher]
  /\ cert = [p \in Procs |-> Nil]
  /\ tx = [p \in Procs |-> "none"]
  /\ newDB = [p \in Procs |-> NilHandle]
  /\ ret \in {Atomic(p, "getDBHandle") : p \in Procs}
  /\ fetched = [p \in Procs |-> 0]
  /\ lookup = [p \in Procs |-> {}]
  /\ rival = [p \in Procs |-> NoRival]
  /\ attempted = [p \in Procs |-> FALSE]
  /\ committed = [p \in Procs |-> FALSE]
  /\ coSucc = [p \in Procs |-> FALSE]
  /\ solo = None
  /\ observed = {}
  /\ origin = {}

\* The callers call GetEnrollmentCert on the open store, for either identity.
NextAB ==
  \E p \in Procs :
    \/ \E i \in IdsAB, f \in FetchOutcomes : GetEnrollmentCert_select(p, i, f)
    \/ GetEnrollmentCert_fetch(p)
    \/ GetEnrollmentCert_begin(p)
    \/ GetEnrollmentCert_insert(p)
    \/ GetEnrollmentCert_commit(p)
    \/ GetEnrollmentCert_reselect(p)

SpecAB == InitAB /\ [][NextAB]_vars

\* ---------------------------------------------- behaviours without overlap

\* No call of another caller is under way.
Alone(p) == \A q \in Procs \ {p} : pc[q] = "idle"

\* The callers call initDB, getDBHandle and CloseDB one call after the other:
\* a call starts when every earlier call has returned.
NextSeq ==
  \E p \in Procs :
    \/ Alone(p) /\ CloseDB(p)
    \/ Alone(p) /\ getDBHandle(p)
    \/ Alone(p) /\ initDB_isOpen(p)
    \/ Alone(p) /\ initDB_createDBIfDBPathEmpty(p)
    \/ Alone(p) /\ openDB_isOpen(p)
    \/ Alone(p) /\ openDB_sqlOpen(p)
    \/ Alone(p) /\ openDB_setOpen(p)
    \/ Alone(p) /\ initDB_assign(p)

SpecSeq == Init /\ [][NextSeq]_vars


\* ------------------------------------------------------------------ properties

GetReturned == ret.op = "GetEnrollmentCert"

\* The key of the call that has just returned.
RetKey == EncodeBase64(ret.id)

\* The certificates (non-empty blobs) the returning call's first select met.
RetStored == {ScanBlob(c) : c \in ret.lookup \ {Null}}

\* C1 as stated: in every state where a record with a non-empty cert exists
\* for key(id), GetEnrollmentCert(id, f) returns exactly the stored cert with
\* a nil error and never invokes f.
C1_HitInEveryState ==
  (GetReturned /\ RetStored # {})
    => /\ ret.err = NoErr
       /\ ret.cert \in RetStored
       /\ ret.fetched = 0

\* C1 as amended: where a record with a non-empty cert exists for key(id),
\* GetEnrollmentCert(id, f) never invokes f, whatever f would return, and when
\* the handle's sql.DB is open it returns exactly the stored cert with a nil
\* error; on a closed handle it returns the select's error and no cert.
C1_CacheHit ==
  (GetReturned /\ RetStored # {})
    => /\ ret.fetched = 0
       /\ ret.open => (ret.err = NoErr /\ ret.cert \in RetStored)
       /\ ~ret.open => (ret.err = ErrDBClosed /\ ret.cert = Nil)

\* A call on an open handle hits a stored cert although its fetcher would fail.
C1_Witness ==
  /\ GetReturned /\ ret.open /\ RetStored # {}
  /\ ret.certFetcher.err = ErrFetch
  /\ ret.cert \in Certs

\* C2: a call that finds no record for its key, meets no other caller's step
\* and whose certFetcher, invoked, returns C with no error, returns (C, nil)
\* and leaves exactly the record (key(id), C) for that key.
C2_MissThenFetch ==
  (/\ GetReturned /\ ret.solo /\ ret.lookup = {}
   /\ ret.fetched = 1 /\ ret.certFetcher.err = NoErr)
    => /\ ret.err = NoErr
       /\ ret.cert = ret.certFetcher.cert
       /\ Rows(RetKey) = {[id |-> RetKey, cert |-> BindBlob(ret.certFetcher.cert)]}

C2_Witness ==
  /\ GetReturned /\ ret.solo /\ ret.lookup = {} /\ ret.fetched = 1
  /\ ret.certFetcher.cert \in Certs
  /\ ret.cert = ret.certFetcher.cert
  /\ ret.committed

\* C3: on a store that has not been deleted, all the non-nil certificates
\* GetEnrollmentCert has ever returned for one identity are the same, and a
\* call that returns a nil error for an identity some call has been given a
\* certificate for returns that certificate.
C3_StableMapping ==
  /\ \A a \in observed, b \in observed : a.id = b.id => a.cert = b.cert
  /\ (GetReturned /\ ret.err = NoErr)
       => \A a \in observed : a.id = ret.id => ret.cert = a.cert

\* A call whose fetcher would give another certificate returns the one an
\* earlier call was given.
C3_Witness ==
  /\ GetReturned /\ ret.err = NoErr /\ ret.cert \in Certs
  /\ ret.certFetcher.err = NoErr
  /\ ret.certFetcher.cert \in Certs \ {ret.cert}
  /\ [id |-> ret.id, cert |-> ret.cert] \in observed

UniqueKeys ==
  \A r \in Certificates, s \in Certificates : r.id = s.id => r = s

\* C4: the table never holds two records with one key, and no step but
\* deleteDB removes a record or changes one.
C4_WriteOnce ==
  /\ []UniqueKeys
  /\ [][ret'.op # "deleteDB" => Certificates \subseteq Certificates']_vars

\* A call has tried to insert over an existing record and the record stands.
C4_Witness ==
  /\ GetReturned /\ ret.attempted /\ ret.err = ErrConstraint
  /\ Rows(RetKey) # {}

\* C5: every record of Certificates has a non-empty, non-null cert.
C5_NoEmptyCert ==
  \A r \in Certificates : r.cert \in Certs

\* C6: no GetEnrollmentCert call returns (nil, nil).
C6_CertOrError ==
  GetReturned => ~(ret.cert = Nil /\ ret.err = NoErr)

\* The step is the first of an initDB call of caller p.
InitDBCalled(p) ==
  /\ pc[p] = "idle"
  /\ \/ pc'[p] = "createDBIfDBPathEmpty"
     \/ ret'.proc = p /\ ret'.op = "initDB"

\* C7: initDB called while isOpen is set returns the already-initialized error
\* and leaves isOpen and db as they are.
C7_DoubleInit ==
  [][\A p \in Procs :
       (isOpen /\ InitDBCalled(p))
         => /\ ret'.proc = p /\ ret'.op = "initDB" /\ ret'.err = ErrAlreadyInit
            /\ isOpen' = isOpen
            /\ db' = db]_vars

C7_Witness ==
  /\ ret.op = "initDB" /\ ret.err = ErrAlreadyInit
  /\ isOpen /\ db # NilHandle /\ handles[db]

OpenHandles == {h \in 1..Len(handles) : handles[h]}

\* C8: there is never more than one handle whose sql.DB is open, and of
\* initDB calls that overlap at most one returns success.
C8_OneOpenHandle ==
  /\ Cardinality(OpenHandles) <= 1
  /\ ~(ret.op = "initDB" /\ ret.err = NoErr /\ ret.coSucc)

\* The call that has just returned missed its key, and before its INSERT ran
\* another call committed a record for the key.
LostRace == GetReturned /\ ret.rival # NoRival /\ ret.attempted

\* C9: of two calls that race to insert one key, one commits; the other's
\* INSERT fails on the primary key, and the table holds one record for the
\* key, with the certificate of the call that committed.
C9_OneInsertWins ==
  LostRace
    => /\ ret.err = ErrConstraint
       /\ ~ret.committed
       /\ Rows(RetKey) = {[id |-> RetKey, cert |-> BindBlob(ret.rival)]}

C9_Witness ==
  /\ LostRace
  /\ ret.rival \in Certs
  /\ ret.certFetcher.cert \in Certs \ {ret.rival}
  /\ ret.err = ErrConstraint

\* C10: the call that loses the race returns the winner's certificate and a
\* nil error, not the uniqueness error.
C10_LoserGetsCert ==
  LostRace => (ret.err = NoErr /\ ret.cert = ret.rival)

\* The step is the return of a GetEnrollmentCert call of caller p.
GetReturns(p) == ret'.proc = p /\ ret'.op = "GetEnrollmentCert"

\* C11: when the first select misses and certFetcher returns an error e, the
\* call returns (nil, e), has invoked certFetcher exactly once, has begun no
\* transaction and executed no INSERT, and the step that returns leaves the
\* stored records as they are.
C11_FetchFailure ==
  /\ []((GetReturned /\ ret.fetched > 0 /\ ret.certFetcher.err # NoErr)
          => /\ ret.cert = Nil
             /\ ret.err = ret.certFetcher.err
             /\ ret.fetched = 1
             /\ ~ret.attempted /\ ~ret.committed)
  /\ [][\A p \in Procs :
         (pc[p] = "fetch" /\ certFetcher[p].err # NoErr /\ pc'[p] # pc[p])
           => /\ GetReturns(p)
              /\ tx[p] = "none" /\ tx'[p] = "none"
              /\ Certificates' = Certificates]_vars

\* A call that missed returns the error of its fetcher.
C11_Witness ==
  /\ GetReturned /\ ret.open /\ RetStored = {}
  /\ ret.fetched = 1 /\ ret.err = ErrFetch /\ ret.cert = Nil

\* C12: a call that returns from its INSERT or its Commit returns their
\* error and no certificate, has rolled its transaction back, holds no write
\* lock, and leaves the stored records as they were before its INSERT; no
\* caller outside a call has a transaction.
C12_RollbackOnFailure ==
  /\ [](\A p \in Procs : pc[p] = "idle" => (tx[p] = "none" /\ writer # p))
  /\ [][\A p \in Procs :
         (pc[p] \in {"insert", "commit"} /\ GetReturns(p))
           => /\ ret'.err # NoErr /\ ret'.cert = Nil
              /\ ~ret'.committed
              /\ Certificates' = Certificates]_vars

\* A call's INSERT has failed on the primary key and the call has returned.
C12_Witness ==
  /\ GetReturned /\ ret.attempted /\ ~ret.committed
  /\ ret.err = ErrConstraint
  /\ tx[ret.proc] = "none" /\ writer # ret.proc

\* C13: when createDBIfDBPathEmpty returns success, client.db and the
\* Certificates table exist; a failure of createDB is not reported as success.
C13_BootstrapSuccess ==
  [][\A p \in Procs :
       (pc[p] = "createDBIfDBPathEmpty" /\ pc'[p] = "openDB")
         => (dirExists' /\ getDBName \in files' /\ tableExists')]_vars

\* The directory, its files and the table as they are, with no error: what a
\* bootstrap that changes nothing returns.
Untouched ==
  [err |-> NoErr, dirExists |-> dirExists, files |-> files,
   tableExists |-> tableExists]

\* C14: createDBIfDBPathEmpty on a missing or empty directory returns
\* success and leaves client.db and the Certificates table; called again in
\* the state it leaves, it returns success and changes nothing.  No call of
\* it changes the records.
C14_IdempotentBootstrap ==
  [][\A p \in Procs :
       (pc[p] = "createDBIfDBPathEmpty" /\ pc'[p] # pc[p])
         => /\ Certificates' = Certificates
            /\ DirMissingOrEmpty
                 => /\ pc'[p] = "openDB"
                    /\ getDBName \in files' /\ tableExists'
                    /\ createDBIfDBPathEmpty' = Untouched'
            /\ (files = {getDBName} /\ tableExists)
                 => /\ pc'[p] = "openDB"
                    /\ <<dirExists', files', tableExists'>>
                         = <<dirExists, files, tableExists>>]_vars

\* createDBIfDBPathEmpty has run again on the store it created, which holds
\* a record.
C14_Witness ==
  \E p \in Procs :
    /\ pc[p] = "openDB"
    /\ files = {getDBName} /\ tableExists
    /\ Certificates # {}

\* C15: getDBHandle returns a handle only while the store is open and the
\* handle's sql.DB is open; otherwise it returns nil.
C15_HandleGated ==
  (ret.op = "getDBHandle" /\ hnd[ret.proc] # NilHandle)
    => (isOpen /\ handles[hnd[ret.proc]])

\* The step is a step of an initDB call of caller p.
InitDBStep(p) ==
  \/ InitDBCalled(p)
  \/ pc[p] \in InitDBPcs /\ pc'[p] # pc[p]

\* The step is the call of GetEnrollmentCert by caller p, with its first select.
GetCalled(p) == pc[p] = "idle" /\ (pc'[p] = "fetch" \/ GetReturns(p))

\* The identity caller p calls GetEnrollmentCert with in this step.
CalledId(p) == IF pc'[p] = "fetch" THEN id'[p] ELSE ret'.id

\* C16: CloseDB and initDB leave the records as they are, and a
\* GetEnrollmentCert call on an open handle, for an identity whose certificate
\* was committed through another handle that has been closed since, returns
\* that certificate and a nil error without invoking certFetcher.
C16_SurvivesReopen ==
  /\ [][(ret'.op = "CloseDB" \/ \E p \in Procs : InitDBStep(p))
          => Certificates' = Certificates]_vars
  /\ [][\A p \in Procs : \A o \in origin :
          (/\ GetCalled(p) /\ handles[hnd[p]]
           /\ o.id = CalledId(p) /\ o.cert \in Certs
           /\ o.via # hnd[p] /\ ~handles[o.via])
            => /\ GetReturns(p)
               /\ ret'.err = NoErr /\ ret'.cert = o.cert
               /\ ret'.fetched = 0]_vars

\* A call on the handle of a second initDB is given the certificate that was
\* committed through the first handle, closed since, and not the one its own
\* fetcher holds.
C16_Witness ==
  /\ GetReturned /\ ret.err = NoErr /\ ret.fetched = 0
  /\ ret.cert \in Certs
  /\ ret.certFetcher.cert # ret.cert
  /\ isOpen /\ hnd[ret.proc] = db
  /\ \E o \in origin :
       /\ o.id = ret.id /\ o.cert = ret.cert
       /\ o.via # db /\ ~handles[o.via]

\* The step is a step of a GetEnrollmentCert call of caller p.
GetStep(p) ==
  \/ GetCalled(p)
  \/ /\ pc[p] \in {"fetch", "begin", "insert", "commit", "reselect"}
     /\ pc'[p] # pc[p]

\* The identity of the call caller p takes a step of.
StepId(p) == IF pc[p] = "idle" THEN CalledId(p) ELSE id[p]

\* What the call that has just returned returns by the history of its own key
\* alone: what its first select found, what its certFetcher returns, and
\* whether a call for the same key committed before its INSERT.
OwnKeyResult ==
  IF RetStored # {}
    THEN [cert |-> CHOOSE c \in RetStored : TRUE, err |-> NoErr, fetched |-> 0]
  ELSE IF ret.certFetcher.err # NoErr
    THEN [cert |-> Nil, err |-> ret.certFetcher.err, fetched |-> 1]
  ELSE IF ret.lookup = {} /\ ret.rival = NoRival
    THEN [cert |-> ret.certFetcher.cert, err |-> NoErr, fetched |-> 1]
  ELSE [cert |-> Nil, err |-> ErrConstraint, fetched |-> 1]

\* C17: on the open store, no step of a GetEnrollmentCert call for one
\* identity creates, changes or removes a record of another key, and what a
\* call returns is decided by the history of its own key, whatever calls for
\* the other identity do meanwhile.
C17_KeysIndependent ==
  /\ [][\A p \in Procs :
         GetStep(p)
           => \A i \in IdsAB \ {StepId(p)} :
                Rows(EncodeBase64(i))' = Rows(EncodeBase64(i))]_vars
  /\ [](GetReturned
          => /\ ret.cert = OwnKeyResult.cert
             /\ ret.err = OwnKeyResult.err
             /\ ret.fetched = OwnKeyResult.fetched
             /\ (ret.err = NoErr /\ ret.fetched = 1)
                  => Rows(RetKey) = {[id |-> RetKey, cert |-> BindBlob(ret.cert)]})

\* A call has fetched and committed a certificate for its identity while a
\* call for the other identity, which has another certificate on record, is
\* under way.
C17_Witness ==
  /\ GetReturned /\ ret.committed /\ ret.err = NoErr /\ ret.cert \in Certs
  /\ ~ret.solo
  /\ \E r \in Certificates : r.id # RetKey /\ r.cert \notin {Null, ret.cert}
  /\ \E q \in Procs : pc[q] # "idle" /\ id[q] \in IdsAB \ {ret.id}

\* The step is a CloseDB call of caller p.
CloseDBCalled(p) == ret'.proc = p /\ ret'.op = "CloseDB"

\* C18: CloseDB on a handle that is closed already returns without error and
\* leaves the handles, db and the store as they are and isOpen false; called
\* right after a CloseDB on the same handle it changes nothing at all.
C18_CloseIdempotent ==
  [][\A p \in Procs :
       (CloseDBCalled(p) /\ ~handles[hnd[p]])
         => /\ ret'.err = NoErr
            /\ ~isOpen'
            /\ UNCHANGED <<handles, db, storeVars>>
            /\ (ret.op = "CloseDB" /\ hnd[ret.proc] = hnd[p])
                 => UNCHANGED isOpen]_vars

\* CloseDB has been called on the handle in db, closed already, with a record
\* in the store.
C18_Witness ==
  /\ ret.op = "CloseDB" /\ ~ret.open
  /\ hnd[ret.proc] = db
  /\ ~isOpen /\ ~handles[db]
  /\ Certificates # {}

\* No call is under way.
Quiescent == \A p \in Procs : pc[p] = "idle"

\* C19: between calls, isOpen is true exactly when the handle in db has an
\* open sql.DB, whichever handles CloseDB has been called on.
C19_FlagTracksHandle ==
  Quiescent => (isOpen <=> (db # NilHandle /\ handles[db]))

\* C20: GetEnrollmentCert called on a handle whose sql.DB CloseDB has closed
\* returns from its first select with the error of the closed database and no
\* certificate; it has not invoked certFetcher, has no transaction, and
\* leaves the store as it is.
C20_ClosedHandleInert ==
  [][\A p \in Procs :
       (GetCalled(p) /\ ~handles[hnd[p]])
         => /\ GetReturns(p)
            /\ ret'.err = ErrDBClosed /\ ret'.cert = Nil
            /\ ret'.fetched = 0 /\ ~ret'.attempted /\ ~ret'.committed
            /\ tx[p] = "none" /\ tx'[p] = "none"
            /\ UNCHANGED storeVars]_vars

\* A call on a closed handle has returned the error although the store holds
\* the certificate of its identity and its fetcher has one.
C20_Witness ==
  /\ GetReturned /\ ~ret.open /\ ret.err = ErrDBClosed
  /\ ret.fetched = 0
  /\ ret.certFetcher.cert \in Certs
  /\ \E r \in Rows(RetKey) : r.cert # Null

====
